---- MODULE Spec2Model ----
(***************************************************************************)
(* Model of simple-bitrange (src/src/lib.rs): reading and writing bit      *)
(* ranges of a byte slice in little-endian or big-endian order.            *)
(*                                                                         *)
(* Representation.  An unsigned integer of width w is the set of its set   *)
(* bit positions, a subset of 0..w-1: a byte is a subset of 0..7, a u64 a  *)
(* subset of 0..63, the u128 accumulator a subset of 0..127.  Bitwise and, *)
(* or and not are intersection, union and complement; a shift moves the    *)
(* positions and drops those that leave the width.  A slice is a sequence  *)
(* of bytes.  usize values stay far below 2^31 except where the crate's    *)
(* arithmetic wraps; a wrapped usize is kept as the negative integer it is *)
(* congruent to.                                                           *)
(***************************************************************************)
EXTENDS Integers, Sequences, FiniteSets, TLC

VARIABLES
    buf,              \* the caller's byte slice
    overflow_checks,  \* build profile: TRUE = overflow checks on (debug)
    panicked,         \* a call has panicked; the process is gone
    log               \* the calls made so far, oldest first

vars == <<buf, overflow_checks, panicked, log>>

----------------------------------------------------------------------------
(* Bounds of the exploration *)

MaxLen == 26   \* length of the longest slice
MaxOps == 3    \* calls per run in the sequence specification

----------------------------------------------------------------------------
(* Integers as bit sets *)

U8Bits   == 8
U64Bits  == 64
U128Bits == 128

Min(a, b) == IF a < b THEN a ELSE b

\* the byte with numeric value n
Byte(n) == {i \in 0..7 : (n \div (2^i)) % 2 = 1}

\* x << n at width w, for n < w (bits shifted out are lost)
Shl(x, n, w) == {i + n : i \in {j \in x : j + n < w}}

\* x >> n
Shr(x, n) == {i - n : i \in {j \in x : j >= n}}

\* !x at width 128
Not128(x) == (0..(U128Bits - 1)) \ x

\* x as T, for an unsigned T of the given width
Truncate(x, width) == {i \in x : i < width}

----------------------------------------------------------------------------
(* Ranges: RangeBounds<usize> *)

BoundKinds == {"Included", "Excluded", "Unbounded"}

Range(sk, s, ek, e) == [sk |-> sk, s |-> s, ek |-> ek, e |-> e]

\* a..b, a..=b, ..
HalfOpen(a, b) == Range("Included", a, "Excluded", b)
Closed(a, b)   == Range("Included", a, "Included", b)
Full           == Range("Unbounded", 0, "Unbounded", 0)

----------------------------------------------------------------------------
(* Iterators over a slice: the sequence of positions (1-based) visited *)

iter(len) == [i \in 1..len |-> i]

rev(s) == [i \in 1..Len(s) |-> s[Len(s) + 1 - i]]

skip(s, n) == SubSeq(s, n + 1, Len(s))

take(s, n) == SubSeq(s, 1, Min(n, Len(s)))

\* the bytes an iterator of positions yields
Deref(b, it) == [i \in 1..Len(it) |-> b[it[i]]]

----------------------------------------------------------------------------
(* setup_iter *)

Panic == [panic |-> TRUE]

\* start bit of the range, as the match on start_bound() gives it
StartBit(range) ==
    CASE range.sk = "Included"  -> range.s
      [] range.sk = "Excluded"  -> range.s + 1
      [] range.sk = "Unbounded" -> 0

\* end bit of the range; Excluded(0) wraps to usize::MAX, kept as -1
EndBit(range) ==
    CASE range.ek = "Included"  -> range.e
      [] range.ek = "Excluded"  -> range.e - 1
      [] range.ek = "Unbounded" -> 8 * 8 - 1

setup_iter(input_len, range, checks) ==
    LET start_bit == StartBit(range)
        end_bit   == EndBit(range)
        \* *end - 1 underflows for Excluded(0); end_bit - start_bit
        \* underflows when the end lies before the start
        underflow == end_bit < 0 \/ end_bit < start_bit
        total_bits == end_bit - start_bit + 1
        start_byte == start_bit \div 8
        end_byte   == IF end_bit < 0 THEN input_len
                      ELSE Min(end_bit \div 8, input_len)
    IN  IF checks /\ underflow
        THEN Panic
        ELSE [panic      |-> FALSE,
              start_bit  |-> start_bit - start_byte * 8,
              total_bits |-> total_bits,
              start_byte |-> start_byte,
              end_byte   |-> end_byte]

----------------------------------------------------------------------------
(* read_u128_le, write_value_le *)

\* faulty variant: the accumulator is a u64
RECURSIVE fold_u64(_, _)
fold_u64(acc, bytes) ==
    IF bytes = <<>> THEN acc
    ELSE fold_u64(Shl(acc, 8, U64Bits) \cup Head(bytes), Tail(bytes))

RECURSIVE fold(_, _)
fold(acc, bytes) ==
    IF bytes = <<>> THEN acc
    ELSE fold(Shl(acc, 8, U128Bits) \cup Head(bytes), Tail(bytes))

\* faulty variant: the fold runs over the input without .rev()
read_u128_le_unreversed(input) == fold({}, input)

\* input.rev().fold(0, |acc, x| (acc << 8) | *x as u128)
read_u128_le(input) == fold({}, rev(input))

\* byte k (0 = least significant) of a u128: value.to_be_bytes().iter().rev()
val_as_bytes(value) ==
    [k \in 1..(U128Bits \div U8Bits) |->
        {i - 8 * (k - 1) : i \in {j \in value : j \div 8 = k - 1}}]

\* faulty variant: the bytes of value are stored without .rev(), most significant
\* first
write_value_le_unreversed(b, output, value) ==
    LET n == Min(Len(val_as_bytes(value)), Len(output))
    IN  [p \in 1..Len(b) |->
            IF \E j \in 1..n : output[j] = p
            THEN val_as_bytes(value)[Len(val_as_bytes(value)) + 1
                                     - CHOOSE j \in 1..n : output[j] = p]
            ELSE b[p]]

\* zip the 16 bytes of value with the output positions and store
write_value_le(b, output, value) ==
    LET n == Min(Len(val_as_bytes(value)), Len(output))
    IN  [p \in 1..Len(b) |->
            IF \E j \in 1..n : output[j] = p
            THEN val_as_bytes(value)[CHOOSE j \in 1..n : output[j] = p]
            ELSE b[p]]

\* faulty variant: the mask is one bit too wide, (1 << (total_bits + 1)) - 1
Mask_inclusive(total_bits, checks) ==
    [panic |-> FALSE, value |-> 0..total_bits]

\* (1 << total_bits) - 1 on u128; a shift by 128 or more panics with
\* overflow checks and otherwise uses the shift amount modulo 128
Mask(total_bits, checks) ==
    IF total_bits >= 0 /\ total_bits < U128Bits
    THEN [panic |-> FALSE, value |-> 0..(total_bits - 1)]
    ELSE IF checks THEN Panic
    ELSE [panic |-> FALSE,
          value |-> 0..((((total_bits % U128Bits) + U128Bits) % U128Bits) - 1)]

----------------------------------------------------------------------------
(* bit_range_read_le_iter_impl, write_le_compound, write_be_compound *)

\* faulty variant: output >>= start_bit is missing
bit_range_read_le_iter_impl_noshift(b, input, range, checks) ==
    LET s == setup_iter(Len(input), range, checks)
    IN  IF s.panic THEN Panic
        ELSE
        LET it   == take(skip(input, s.start_byte), s.end_byte + 1)
            mask == Mask(s.total_bits, checks)
        IN  IF mask.panic THEN Panic
            ELSE [panic |-> FALSE,
                  value |-> Truncate(read_u128_le(Deref(b, it)) \cap mask.value,
                                     U64Bits)]

\* input: the iterator (positions of b) the caller passes
bit_range_read_le_iter_impl(b, input, range, checks) ==
    LET s == setup_iter(Len(input), range, checks)
    IN  IF s.panic THEN Panic
        ELSE
        LET it   == take(skip(input, s.start_byte), s.end_byte + 1)
            mask == Mask(s.total_bits, checks)
        IN  IF mask.panic THEN Panic
            ELSE [panic |-> FALSE,
                  value |-> Truncate(Shr(read_u128_le(Deref(b, it)), s.start_bit)
                                        \cap mask.value, U64Bits)]

\* faulty variant: val is not shifted to the start bit
write_le_compound_noshift(output, val, range, checks) ==
    LET s == setup_iter(Len(output), range, checks)
    IN  IF s.panic THEN Panic
        ELSE
        LET it   == take(skip(iter(Len(output)), s.start_byte), s.end_byte + 1)
            work_value == read_u128_le(Deref(output, it))
            m    == Mask(s.total_bits, checks)
        IN  IF m.panic THEN Panic
            ELSE
            LET mask == Shl(m.value, s.start_bit, U128Bits)
                v    == val \cap mask
                work == (work_value \cap Not128(mask)) \cup v
            IN  [panic |-> FALSE, value |-> write_value_le(output, it, work)]

\* faulty variant: the shifted val is not masked
write_le_compound_unmasked(output, val, range, checks) ==
    LET s == setup_iter(Len(output), range, checks)
    IN  IF s.panic THEN Panic
        ELSE
        LET it   == take(skip(iter(Len(output)), s.start_byte), s.end_byte + 1)
            work_value == read_u128_le(Deref(output, it))
            m    == Mask(s.total_bits, checks)
        IN  IF m.panic THEN Panic
            ELSE
            LET mask == Shl(m.value, s.start_bit, U128Bits)
                v    == Shl(val, s.start_bit, U128Bits)
                work == (work_value \cap Not128(mask)) \cup v
            IN  [panic |-> FALSE, value |-> write_value_le(output, it, work)]

write_le_compound(output, val, range, checks) ==
    LET s == setup_iter(Len(output), range, checks)
    IN  IF s.panic THEN Panic
        ELSE
        LET it   == take(skip(iter(Len(output)), s.start_byte), s.end_byte + 1)
            work_value == read_u128_le(Deref(output, it))
            m    == Mask(s.total_bits, checks)
        IN  IF m.panic THEN Panic
            ELSE
            LET mask == Shl(m.value, s.start_bit, U128Bits)
                v    == Shl(val, s.start_bit, U128Bits) \cap mask
                work == (work_value \cap Not128(mask)) \cup v
            IN  [panic |-> FALSE, value |-> write_value_le(output, it, work)]

\* faulty variant: the area is not read before it is modified
write_be_compound_blind(output, val, range, checks) ==
    LET s == setup_iter(Len(output), range, checks)
    IN  IF s.panic THEN Panic
        ELSE
        LET it   == take(skip(rev(iter(Len(output))), s.start_byte), s.end_byte + 1)
            work_value == {}
            m    == Mask(s.total_bits, checks)
        IN  IF m.panic THEN Panic
            ELSE
            LET mask == Shl(m.value, s.start_bit, U128Bits)
                v    == Shl(val, s.start_bit, U128Bits) \cap mask
                work == (work_value \cap Not128(mask)) \cup v
            IN  [panic |-> FALSE, value |-> write_value_le(output, it, work)]

write_be_compound(output, val, range, checks) ==
    LET s == setup_iter(Len(output), range, checks)
    IN  IF s.panic THEN Panic
        ELSE
        LET it   == take(skip(rev(iter(Len(output))), s.start_byte), s.end_byte + 1)
            work_value == read_u128_le(Deref(output, it))
            m    == Mask(s.total_bits, checks)
        IN  IF m.panic THEN Panic
            ELSE
            LET mask == Shl(m.value, s.start_bit, U128Bits)
                v    == Shl(val, s.start_bit, U128Bits) \cap mask
                work == (work_value \cap Not128(mask)) \cup v
            IN  [panic |-> FALSE, value |-> write_value_le(output, it, work)]

----------------------------------------------------------------------------
(* The public trait methods, generated per numeric type by
   impl_bit_range_slice! and impl_bit_range_write_slice! *)

ReadTypes  == {"u8", "u16", "u32", "u64"}
WriteTypes == {"u8", "u16", "i32", "u32", "u64"}

Width(ty) ==
    CASE ty = "u8"  -> 8
      [] ty = "u16" -> 16
      [] ty = "i32" -> 32
      [] ty = "u32" -> 32
      [] ty = "u64" -> 64

\* a value of a numeric type: its type and its bits
Value(ty, bits) == [ty |-> ty, bits |-> bits]

\* value as u64: zero-extends an unsigned value, sign-extends an i32
AsU64(value) ==
    IF value.ty = "i32" /\ (Width("i32") - 1) \in value.bits
    THEN value.bits \cup (Width("i32")..(U64Bits - 1))
    ELSE value.bits

range_read_le(self, range, ty, checks) ==
    LET res == bit_range_read_le_iter_impl(self, iter(Len(self)), range, checks)
    IN  IF res.panic THEN Panic
        ELSE [panic |-> FALSE, value |-> Truncate(res.value, Width(ty))]

\* faulty variant: the iterator is not reversed
range_read_be_unreversed(self, range, ty, checks) ==
    LET res == bit_range_read_le_iter_impl(self, iter(Len(self)), range, checks)
    IN  IF res.panic THEN Panic
        ELSE [panic |-> FALSE, value |-> Truncate(res.value, Width(ty))]

range_read_be(self, range, ty, checks) ==
    LET res == bit_range_read_le_iter_impl(self, rev(iter(Len(self))), range, checks)
    IN  IF res.panic THEN Panic
        ELSE [panic |-> FALSE, value |-> Truncate(res.value, Width(ty))]

range_write_le(self, range, value, checks) ==
    write_le_compound(self, AsU64(value), range, checks)

range_write_be(self, range, value, checks) ==
    write_be_compound(self, AsU64(value), range, checks)

----------------------------------------------------------------------------
(* Calls *)

ReadEntry(dir, range, ty, res) ==
    [op |-> "read", dir |-> dir, range |-> range, ty |-> ty, val |-> {},
     before |-> buf, after |-> buf,
     panic |-> res.panic, ret |-> IF res.panic THEN {} ELSE res.value]

WriteEntry(dir, range, value, res) ==
    [op |-> "write", dir |-> dir, range |-> range, ty |-> value.ty,
     val |-> value.bits,
     before |-> buf, after |-> IF res.panic THEN buf ELSE res.value,
     panic |-> res.panic, ret |-> {}]

\* a call is made, recorded, and either returns or panics
Call(entry) ==
    /\ ~panicked
    /\ log' = Append(log, entry)
    /\ buf' = entry.after
    /\ panicked' = entry.panic
    /\ UNCHANGED overflow_checks

ReadLE(range, ty) ==
    Call(ReadEntry("le", range, ty, range_read_le(buf, range, ty, overflow_checks)))

ReadBE(range, ty) ==
    Call(ReadEntry("be", range, ty, range_read_be(buf, range, ty, overflow_checks)))

WriteLE(range, value) ==
    Call(WriteEntry("le", range, value,
                    range_write_le(buf, range, value, overflow_checks)))

WriteBE(range, value) ==
    Call(WriteEntry("be", range, value,
                    range_write_be(buf, range, value, overflow_checks)))

----------------------------------------------------------------------------
(* Inputs *)

\* the slices of src/src/tests.rs
TestOnes == <<Byte(255), Byte(255), Byte(255), Byte(255)>>
TestBE   == <<Byte(10), Byte(80), Byte(240), Byte(15)>>
TestLE   == <<Byte(14), Byte(211), Byte(241), Byte(143)>>
TestLE64 == <<Byte(99), Byte(144), Byte(110), Byte(62),
              Byte(30), Byte(117), Byte(166), Byte(215)>>

\* slices of a given length with a byte pattern, and all-ones slices
Mixed(n) == [i \in 1..n |-> Byte((37 * i + 11) % 256)]
Ones(n)  == [i \in 1..n |-> Byte(255)]

Lens == {0, 1, 9, MaxLen}

Buffers ==
    {TestOnes, TestBE, TestLE, TestLE64}
        \cup {Mixed(n) : n \in Lens} \cup {Ones(n) : n \in Lens}

StartIdx == {0, 4, 8, 68, 72}
EndIdx   == {0, 8, 12, 16, 24, 32, 64, 65, 128, 131, 136, 200}

Ranges ==
    {Range(sk, s, ek, e) :
        sk \in {"Included", "Excluded"}, s \in StartIdx,
        ek \in {"Included", "Excluded"}, e \in EndIdx}
    \cup {Range("Unbounded", 0, ek, e) :
        ek \in {"Included", "Excluded"}, e \in EndIdx}
    \cup {Range(sk, s, "Unbounded", 0) :
        sk \in {"Included", "Excluded"}, s \in StartIdx}
    \cup {Full}

Values ==
    {Value("u64", 0..63),
     Value("u64", {i \in 0..63 : i % 8 \in {0, 2, 5, 7}}),
     Value("i32", {}),
     Value("i32", 0..31),
     Value("u8", Byte(90))}

\* the sequence specification: two fields that share a byte and the
\* unbounded range, in the slice for an eight-byte slice and past its end
\* for a one-byte slice
SeqBuffers == {TestLE64, <<Byte(165)>>}
SeqRanges  == {HalfOpen(4, 12), Closed(12, 17), Full}
SeqValues  == {Value("u64", {i \in 0..63 : i % 8 \in {0, 2, 5, 7}}),
               Value("i32", {})}

\* the value the previous call read, if it was a read that returned
Held == IF log # <<>> /\ log[Len(log)].op = "read" /\ ~log[Len(log)].panic
        THEN {Value(log[Len(log)].ty, log[Len(log)].ret)}
        ELSE {}

----------------------------------------------------------------------------
(* Specifications *)

\* sequences of calls on one slice
Init ==
    /\ buf \in SeqBuffers
    /\ overflow_checks \in BOOLEAN
    /\ panicked = FALSE
    /\ log = <<>>

Next ==
    /\ Len(log) < MaxOps
    /\ \/ \E range \in SeqRanges : ReadLE(range, "u64")
       \/ \E range \in SeqRanges : ReadBE(range, "u64")
       \/ \E range \in SeqRanges, value \in SeqValues \cup Held : WriteLE(range, value)
       \/ \E range \in SeqRanges, value \in SeqValues \cup Held : WriteBE(range, value)

Spec == Init /\ [][Next]_vars

\* one call, on any slice, with any range
InitCall ==
    /\ buf \in Buffers
    /\ overflow_checks \in BOOLEAN
    /\ panicked = FALSE
    /\ log = <<>>

NextCall ==
    /\ log = <<>>
    /\ \/ \E range \in Ranges, ty \in ReadTypes : ReadLE(range, ty)
       \/ \E range \in Ranges, ty \in ReadTypes : ReadBE(range, ty)
       \/ \E range \in Ranges, value \in Values : WriteLE(range, value)
       \/ \E range \in Ranges, value \in Values : WriteBE(range, value)

SpecCall == InitCall /\ [][NextCall]_vars

----------------------------------------------------------------------------
(* Vocabulary of the properties *)

Entries == {log[i] : i \in DOMAIN log}

AbsStart(e) == StartBit(e.range)
AbsEnd(e)   == EndBit(e.range)
FieldWidth(e) == AbsEnd(e) - AbsStart(e) + 1

ValidWidth(e) == FieldWidth(e) >= 1 /\ FieldWidth(e) <= 64
InBuffer(e)   == AbsEnd(e) < 8 * Len(e.before)

Reversed(b) == [i \in 1..Len(b) |-> b[Len(b) + 1 - i]]

\* the slice in the byte order the directionality numbers it in
View(b, dir) == IF dir = "le" THEN b ELSE Reversed(b)

\* bit k of a slice: bit (k mod 8) of byte k div 8; 0 past the end
BufBit(b, k) == k < 8 * Len(b) /\ (k % 8) \in b[(k \div 8) + 1]

\* the field of width w at bit start of a slice, as an integer
Field(b, start, w) == {i \in 0..(w - 1) : BufBit(b, start + i)}

\* a whole slice as a little-endian integer
LEInt(b) == {j \in 0..(8 * Len(b) - 1) : BufBit(b, j)}

\* the integer n < 2^31 as a bit set
Num(n) == {i \in 0..30 : (n \div (2^i)) % 2 = 1}

\* the u64 a write entry passed on
V64(e) == IF e.ty = "i32" /\ 31 \in e.val THEN e.val \cup (32..63) ELSE e.val

----------------------------------------------------------------------------
\* C1: a little-endian read of an in-buffer range of width 1..64, returned
\* as u64, is the integer whose bit i is bit ((start+i) mod 8) of byte
\* (start+i) div 8; reading 8..24 of [0x0E, 0xD3, 0xF1, 0x8F] gives 0xF1D3.
C1_ReadLE ==
    \A e \in Entries :
        /\ (e.op = "read" /\ e.dir = "le" /\ e.ty = "u64"
                /\ ValidWidth(e) /\ InBuffer(e))
            => (~e.panic /\ e.ret = Field(e.before, AbsStart(e), FieldWidth(e)))
        /\ (e.op = "read" /\ e.dir = "le" /\ e.ty \in {"u32", "u64"}
                /\ e.before = TestLE /\ e.range = HalfOpen(8, 24))
            => (~e.panic /\ e.ret = Num(61907))

C1_Witness ==
    \E e \in Entries :
        /\ e.op = "read" /\ e.dir = "le" /\ e.ty = "u64"
        /\ ValidWidth(e) /\ InBuffer(e)
        /\ AbsStart(e) % 8 # 0 /\ FieldWidth(e) > 8
        /\ e.ret # {} /\ e.ret # 0..(FieldWidth(e) - 1)

\* C2: a write to an in-buffer range of width w in 1..64 replaces exactly
\* the w field bits by the low w bits of the value and changes no other
\* bit, the bits being numbered in the byte order of the directionality;
\* writing 0 to 4..12 of four 0xFF bytes gives [0x0F, 0xF0, 0xFF, 0xFF]
\* little-endian and [0xFF, 0xFF, 0xF0, 0x0F] big-endian.
C2_Write ==
    \A e \in Entries :
        /\ (e.op = "write" /\ ValidWidth(e) /\ InBuffer(e))
            => /\ ~e.panic
               /\ Len(e.after) = Len(e.before)
               /\ \A k \in 0..(8 * Len(e.before) - 1) :
                    BufBit(View(e.after, e.dir), k) =
                        IF AbsStart(e) <= k /\ k <= AbsEnd(e)
                        THEN (k - AbsStart(e)) \in V64(e)
                        ELSE BufBit(View(e.before, e.dir), k)
        /\ (e.op = "write" /\ e.before = TestOnes /\ e.range = HalfOpen(4, 12)
                /\ e.val = {})
            => e.after = IF e.dir = "le"
                         THEN <<Byte(15), Byte(240), Byte(255), Byte(255)>>
                         ELSE <<Byte(255), Byte(255), Byte(240), Byte(15)>>

C2_Witness ==
    \E e \in Entries :
        /\ e.op = "write" /\ e.dir = "be" /\ ValidWidth(e) /\ InBuffer(e)
        /\ AbsStart(e) % 8 # 0 /\ FieldWidth(e) > 8
        /\ e.after # e.before
        /\ V64(e) \cap (0..(FieldWidth(e) - 1)) # {}
        /\ \E k \in 0..(FieldWidth(e) - 1) : k \notin V64(e)

\* C5: a big-endian read of the slice in reversed byte order equals the
\* little-endian read of the slice, for every range of width at most 64;
\* on [0x0A, 0x50, 0xF0, 0x0F] big-endian reads of 0..8, 0..16 and 0..24
\* give 0x0F, 0xF00F and 0x50F00F.
C5_Symmetry ==
    \A e \in Entries :
        /\ (e.op = "read" /\ FieldWidth(e) >= 0 /\ FieldWidth(e) <= 64)
            => LET other == IF e.dir = "be"
                            THEN range_read_le(Reversed(e.before), e.range, e.ty,
                                               overflow_checks)
                            ELSE range_read_be(Reversed(e.before), e.range, e.ty,
                                               overflow_checks)
               IN  /\ other.panic = e.panic
                   /\ ~e.panic => other.value = e.ret
        /\ (e.op = "read" /\ e.dir = "be" /\ e.ty \in {"u32", "u64"}
                /\ e.before = TestBE)
            => /\ e.range = HalfOpen(0, 8)  => (~e.panic /\ e.ret = Num(15))
               /\ e.range = HalfOpen(0, 16) => (~e.panic /\ e.ret = Num(61455))
               /\ e.range = HalfOpen(0, 24) => (~e.panic /\ e.ret = Num(5304335))

C5_Witness ==
    \E e \in Entries :
        /\ e.op = "read" /\ e.dir = "be" /\ ValidWidth(e) /\ InBuffer(e)
        /\ Reversed(e.before) # e.before
        /\ ~e.panic /\ e.ret # {}
        /\ e.ret # range_read_le(e.before, e.range, e.ty, overflow_checks).value

\* the bytes (0-based, in the byte order of the directionality) a write
\* entry changed
Altered(e) ==
    {p \in 0..(Len(e.before) - 1) :
        View(e.after, e.dir)[p + 1] # View(e.before, e.dir)[p + 1]}

Resolved(e) == setup_iter(Len(e.before), e.range, overflow_checks)

\* C6 as stated: a write alters no bit outside the bytes
\* [start_byte, end_byte), half-open.
C6_HalfOpenSpan ==
    \A e \in Entries :
        (e.op = "write" /\ ~e.panic)
            => \A p \in Altered(e) :
                    Resolved(e).start_byte <= p /\ p < Resolved(e).end_byte

\* C6: a write to a range whose end bit is not before its start bit alters
\* no bit outside the bytes start_byte..end_byte, end_byte included.
C6_ClosedSpan ==
    \A e \in Entries :
        (e.op = "write" /\ ~e.panic /\ FieldWidth(e) >= 1)
            => /\ Len(e.after) = Len(e.before)
               /\ \A p \in Altered(e) :
                    Resolved(e).start_byte <= p /\ p <= Resolved(e).end_byte

C6_Witness ==
    \E e \in Entries :
        /\ e.op = "write" /\ ~e.panic /\ FieldWidth(e) >= 1
        /\ Resolved(e).end_byte \in Altered(e)
        /\ Resolved(e).start_byte \in Altered(e)
        /\ Resolved(e).start_byte > 0
        /\ Resolved(e).end_byte < Len(e.before) - 1

\* C7: a read or write whose range resolves to more than 64 bits panics,
\* and a write that panics leaves the slice unchanged.
C7_FieldTooWide ==
    \A e \in Entries :
        (FieldWidth(e) > 64) => (e.panic /\ e.after = e.before)

\* C8: a read of a range of width 1..64 whose end bit lies past the slice
\* returns, without panicking, the field with every bit past the end of the
\* slice read as 0; a read of .. on a slice of at most 8 bytes returns the
\* whole slice as a little-endian (big-endian) integer, 0x0FF0500A and
\* 0x0A50F00F for [0x0A, 0x50, 0xF0, 0x0F] as u32.
C8_Clamping ==
    \A e \in Entries :
        /\ (e.op = "read" /\ ValidWidth(e) /\ ~InBuffer(e))
            => /\ ~e.panic
               /\ e.ret = Truncate(Field(View(e.before, e.dir), AbsStart(e),
                                         FieldWidth(e)), Width(e.ty))
        /\ (e.op = "read" /\ e.range = Full /\ Len(e.before) <= 8)
            => /\ ~e.panic
               /\ e.ret = Truncate(LEInt(View(e.before, e.dir)), Width(e.ty))
        /\ (e.op = "read" /\ e.range = Full /\ e.before = TestBE /\ e.ty = "u32")
            => e.ret = IF e.dir = "le" THEN Num(267407370) ELSE Num(173076495)

C8_Witness ==
    \E e \in Entries :
        /\ e.op = "read" /\ e.dir = "be" /\ ValidWidth(e) /\ ~InBuffer(e)
        /\ AbsStart(e) < 8 * Len(e.before) /\ AbsStart(e) > 0
        /\ e.range # Full
        /\ ~e.panic /\ e.ret # {}

----------------------------------------------------------------------------
(* A reference with an accumulator of unbounded width *)

\* the positions skip(start_byte).take(end_byte + 1) selects
Selected(e) ==
    LET positions == IF e.dir = "le" THEN iter(Len(e.before))
                     ELSE Reversed(iter(Len(e.before)))
    IN  take(skip(positions, Resolved(e).start_byte), Resolved(e).end_byte + 1)

\* all the selected bytes as one integer, first byte least significant
WideAcc(bytes) == {j \in 0..(8 * Len(bytes) - 1) : (j % 8) \in bytes[(j \div 8) + 1]}

WideMask(e) == {i + Resolved(e).start_bit : i \in 0..(FieldWidth(e) - 1)}

WideRead(e) ==
    {i - Resolved(e).start_bit :
        i \in WideAcc(Deref(e.before, Selected(e))) \cap WideMask(e)}

WideWrite(e) ==
    LET work == (WideAcc(Deref(e.before, Selected(e))) \ WideMask(e))
                \cup ({i + Resolved(e).start_bit : i \in V64(e)} \cap WideMask(e))
        sel  == Selected(e)
    IN  [p \in 1..Len(e.before) |->
            IF \E j \in 1..Len(sel) : sel[j] = p
            THEN LET j == CHOOSE j \in 1..Len(sel) : sel[j] = p
                 IN  {i - 8 * (j - 1) : i \in {x \in work : x \div 8 = j - 1}}
            ELSE e.before[p]]

\* C9: for an in-buffer range of width 1..64, also when more than 16 bytes
\* are selected, read and write give what an accumulator of unbounded width
\* gives: the fold keeps the first 16 selected bytes, the shifted mask fits
\* in 128 bits, and only bytes the accumulator holds are stored.
C9_Accumulator ==
    \A e \in Entries :
        (ValidWidth(e) /\ InBuffer(e))
            => /\ ~e.panic
               /\ e.op = "read"  => e.ret = Truncate(WideRead(e), Width(e.ty))
               /\ e.op = "write" => e.after = WideWrite(e)
               /\ read_u128_le(Deref(e.before, Selected(e)))
                    = Truncate(WideAcc(Deref(e.before, Selected(e))), U128Bits)
               /\ \A i \in WideMask(e) : i < U128Bits
               /\ e.op = "write"
                    => \A p \in 1..Len(e.before) :
                           e.after[p] # e.before[p]
                               => \E j \in 1..Min(U128Bits \div U8Bits, Len(Selected(e))) :
                                      Selected(e)[j] = p

C9_Witness ==
    \E e \in Entries :
        /\ ValidWidth(e) /\ InBuffer(e)
        /\ e.op = "write" /\ e.after # e.before
        /\ Len(Selected(e)) > 16
        /\ e.before[Selected(e)[17]] # {}

----------------------------------------------------------------------------
(* Properties of sequences of calls *)

SameField(a, b) == a.range = b.range /\ a.dir = b.dir

FieldBits(e) == AbsStart(e)..AbsEnd(e)

\* C3: writing back the u64 just read from a valid range, in the same
\* directionality, leaves every byte of the slice unchanged.
C3_RoundTrip ==
    \A i \in DOMAIN log : i > 1 =>
        LET r == log[i - 1]
            w == log[i]
        IN  (/\ r.op = "read" /\ r.ty = "u64" /\ ~r.panic
             /\ w.op = "write" /\ SameField(r, w) /\ ValidWidth(w)
             /\ w.ty = "u64" /\ w.val = r.ret)
                => (~w.panic /\ w.after = w.before)

C3_Witness ==
    \E i \in DOMAIN log : i > 1 /\
        LET r == log[i - 1]
            w == log[i]
        IN  /\ r.op = "read" /\ r.ty = "u64" /\ ~r.panic
            /\ w.op = "write" /\ SameField(r, w) /\ ValidWidth(w)
            /\ w.ty = "u64" /\ w.val = r.ret
            /\ r.ret # {} /\ r.ret # 0..(FieldWidth(r) - 1)
            /\ w.dir = "be" /\ AbsStart(w) % 8 # 0

\* C4 as stated: a read of a range of width w < 64 that follows a write of
\* V to it returns V & ((1 << w) - 1), for every range.
C4_AnyRange ==
    \A i \in DOMAIN log : i > 1 =>
        LET w == log[i - 1]
            r == log[i]
        IN  (/\ w.op = "write" /\ r.op = "read" /\ r.ty = "u64"
             /\ SameField(w, r) /\ FieldWidth(w) >= 1 /\ FieldWidth(w) < 64)
                => (~w.panic /\ ~r.panic
                    /\ r.ret = V64(w) \cap (0..(FieldWidth(w) - 1)))

\* C4: a read of an in-buffer range of width 1 <= w < 64 that follows a
\* write of V to it returns V & ((1 << w) - 1).
C4_Truncation ==
    \A i \in DOMAIN log : i > 1 =>
        LET w == log[i - 1]
            r == log[i]
        IN  (/\ w.op = "write" /\ r.op = "read" /\ r.ty = "u64"
             /\ SameField(w, r) /\ FieldWidth(w) >= 1 /\ FieldWidth(w) < 64
             /\ InBuffer(w))
                => (~w.panic /\ ~r.panic
                    /\ r.ret = V64(w) \cap (0..(FieldWidth(w) - 1)))

C4_Witness ==
    \E i \in DOMAIN log : i > 1 /\
        LET w == log[i - 1]
            r == log[i]
        IN  /\ w.op = "write" /\ r.op = "read" /\ r.ty = "u64"
            /\ SameField(w, r) /\ FieldWidth(w) >= 1 /\ FieldWidth(w) < 64
            /\ InBuffer(w)
            /\ V64(w) # V64(w) \cap (0..(FieldWidth(w) - 1))
            /\ r.ret # {}
            /\ w.after # w.before

\* a write of the kind C10 is about: to an in-buffer range of width 1..64
DisjointWrite(e, f) ==
    /\ e.op = "write" /\ e.dir = f.dir
    /\ ValidWidth(e) /\ InBuffer(e)
    /\ FieldBits(e) \cap FieldBits(f) = {}

WriteOf(b, e) ==
    IF e.dir = "le"
    THEN range_write_le(b, e.range, Value(e.ty, e.val), overflow_checks)
    ELSE range_write_be(b, e.range, Value(e.ty, e.val), overflow_checks)

\* C10: two writes, in one directionality, to in-buffer ranges that share
\* no bit give the same slice in either order, and a read of a range
\* returns the low bits of the value last written to it whatever was
\* written to ranges disjoint from it since.
C10_Independence ==
    /\ \A i \in DOMAIN log : i > 1 =>
        LET a == log[i - 1]
            b == log[i]
        IN  (/\ a.op = "write" /\ ValidWidth(a) /\ InBuffer(a)
             /\ DisjointWrite(b, a))
                => /\ ~a.panic /\ ~b.panic
                   /\ ~WriteOf(a.before, b).panic
                   /\ ~WriteOf(WriteOf(a.before, b).value, a).panic
                   /\ b.after = WriteOf(WriteOf(a.before, b).value, a).value
    /\ \A i \in DOMAIN log, j \in DOMAIN log :
        (/\ i < j
         /\ log[i].op = "write" /\ ValidWidth(log[i]) /\ InBuffer(log[i])
         /\ log[j].op = "read" /\ log[j].ty = "u64" /\ SameField(log[i], log[j])
         /\ \A k \in (i + 1)..(j - 1) :
                log[k].op = "read" \/ DisjointWrite(log[k], log[i]))
            => /\ ~log[j].panic
               /\ log[j].ret = V64(log[i]) \cap (0..(FieldWidth(log[i]) - 1))

C10_Witness ==
    /\ Len(log) >= 3
    /\ log[1].op = "write" /\ ValidWidth(log[1]) /\ InBuffer(log[1])
    /\ DisjointWrite(log[2], log[1])
    /\ log[1].after # log[1].before
    /\ log[2].after # log[2].before
    /\ log[2].val # log[1].val
    /\ log[3].op = "read" /\ log[3].ty = "u64" /\ SameField(log[1], log[3])
    /\ log[3].ret # {}
    /\ log[1].dir = "be"

====
